---------------------------- MODULE Spec2Model ----------------------------
(***************************************************************************)
(* Model of the passport-photo application: checkCompliance               *)
(* (lib/compliance.ts), cropToPassport (lib/cropPhoto.ts), the processing  *)
(* workflow and the Home page (app/page.tsx), the face-detection module    *)
(* (lib/faceDetection.ts), the Camera component and the print sheet.       *)
(*                                                                         *)
(* JavaScript numbers are modelled as exact rationals <<n, d>> in lowest   *)
(* terms with d > 0, so that every product, quotient and comparison of the *)
(* source is carried out as written (rounding of IEEE doubles is not       *)
(* modelled).  Math.atan2, which is not exact in any number format, is     *)
(* modelled by a CORDIC evaluation in units of 2^-20 degree whose result   *)
(* is rounded to FloatBits significant bits, with the exact values on the  *)
(* axes and diagonals.                                                     *)
(***************************************************************************)
EXTENDS Integers, Sequences, FiniteSets, TLC

VARIABLES imageWidth, imageHeight, faces, result, canvas, processing, errorMessage, camera, sheet, detector, home, summary

vars == <<imageWidth, imageHeight, faces, result, canvas, processing, errorMessage, camera, sheet, detector, home, summary>>

(***************************************************************************)
(* Bounds                                                                  *)
(***************************************************************************)
MaxFaces == 3

(***************************************************************************)
(* Number arithmetic (JavaScript `number`, exact)                          *)
(***************************************************************************)
RECURSIVE Gcd(_, _)
Gcd(a, b) == IF b = 0 THEN a ELSE Gcd(b, a % b)

IAbs(a) == IF a < 0 THEN -a ELSE a

Frac(n, d) ==
    LET g == Gcd(IAbs(n), IAbs(d))
        s == IF d < 0 THEN -1 ELSE 1
    IN  <<(s * n) \div g, (s * d) \div g>>

R(n) == <<n, 1>>

\* sums and comparisons over the least common denominator, products after
\* cross-cancellation
RAdd(a, b) ==
    LET g == Gcd(a[2], b[2])
    IN  Frac(a[1] * (b[2] \div g) + b[1] * (a[2] \div g), (a[2] \div g) * b[2])

RNeg(a) == <<-a[1], a[2]>>

RSub(a, b) == RAdd(a, RNeg(b))

RMul(a, b) ==
    LET g1 == Gcd(IAbs(a[1]), b[2])
        g2 == Gcd(IAbs(b[1]), a[2])
    IN  Frac((a[1] \div g1) * (b[1] \div g2), (a[2] \div g2) * (b[2] \div g1))

RDiv(a, b) == RMul(a, IF b[1] < 0 THEN <<-b[2], -b[1]>> ELSE <<b[2], b[1]>>)

RLt(a, b) ==
    LET g == Gcd(a[2], b[2])
    IN  a[1] * (b[2] \div g) < b[1] * (a[2] \div g)

RLe(a, b) ==
    LET g == Gcd(a[2], b[2])
    IN  a[1] * (b[2] \div g) <= b[1] * (a[2] \div g)

RGe(a, b) == RLe(b, a)

RGt(a, b) == RLt(b, a)

RAbs(a) == <<IAbs(a[1]), a[2]>>

RMin(a, b) == IF RLt(b, a) THEN b ELSE a

RMax(a, b) == IF RGt(b, a) THEN b ELSE a

\* Math.round: nearest integer, halves towards +infinity
Round(a) == (2 * a[1] + a[2]) \div (2 * a[2])

\* Number.prototype.toFixed(1) of a non-negative number, in tenths
ToFixed1(a) == (20 * a[1] + a[2]) \div (2 * a[2])

(***************************************************************************)
(* Math.atan2 in degrees                                                   *)
(***************************************************************************)
\* degrees are counted in units of 2^-20 degree
AngleUnit == 1048576

\* significant bits kept by a result of Math.atan2 (53 in binary64)
FloatBits == 24

\* atan(2^-i) for i = 0, 1, ... in angle units
AtanTable ==
    <<47185920, 27855475, 14718068, 7471121, 3750058, 1876857, 938658,
      469357, 234682, 117342, 58671, 29335, 14668, 7334, 3667, 1833,
      917, 458, 229, 115, 57, 29, 14, 7, 4, 2>>

RECURSIVE Cordic(_, _, _, _, _)
Cordic(x, y, z, pow, i) ==
    IF i > Len(AtanTable) THEN z
    ELSE IF y > 0
         THEN Cordic(x + (y \div pow), y - (x \div pow), z + AtanTable[i], 2 * pow, i + 1)
         ELSE Cordic(x - (y \div pow), y + (x \div pow), z - AtanTable[i], 2 * pow, i + 1)

\* atan(a / b) in degrees for integers a > 0, b > 0
AtanDeg(a, b) ==
    IF a = b THEN R(45)
    ELSE LET m == IF a > b THEN a ELSE b
             S == 268435456 \div m
         IN  Frac(Cordic(b * S, a * S, 0, 1, 1), AngleUnit)

RECURSIVE BitLen(_)
BitLen(z) == IF z = 0 THEN 0 ELSE 1 + BitLen(z \div 2)

RECURSIVE Pow2(_)
Pow2(k) == IF k = 0 THEN 1 ELSE 2 * Pow2(k - 1)

\* round the natural number z to FloatBits significant bits, ties to even
RoundToFloat(z) ==
    IF BitLen(z) <= FloatBits THEN z
    ELSE LET u == Pow2(BitLen(z) - FloatBits)
             q == z \div u
             r == z % u
         IN  IF r > u \div 2 \/ (r = u \div 2 /\ q % 2 = 1)
             THEN (q + 1) * u
             ELSE q * u

\* a non-negative angle as the nearest representable number
Fl(q) == Frac(RoundToFloat(q[1] * (AngleUnit \div q[2])), AngleUnit)

\* (Math.atan2(deltaY, deltaX) * 180) / Math.PI: the angle of the quadrant,
\* rounded to the precision of the number format
Atan2Deg(deltaY, deltaX) ==
    LET Y == deltaY[1] * deltaX[2]
        X == deltaX[1] * deltaY[2]
    IN  IF Y = 0 THEN (IF X < 0 THEN R(180) ELSE R(0))
        ELSE IF X = 0 THEN (IF Y > 0 THEN R(90) ELSE R(-90))
        ELSE LET t == AtanDeg(IAbs(Y), IAbs(X))
                 q == Fl(IF X > 0 THEN t ELSE RSub(R(180), t))
             IN  IF Y > 0 THEN q ELSE RSub(R(0), q)

\* mutant: the arguments of atan2 are exchanged
calculateAngle_SwappedArgs(p1, p2) ==
    LET deltaY == RSub(p2.y, p1.y)
        deltaX == RSub(p2.x, p1.x)
    IN  Atan2Deg(deltaX, deltaY)


calculateAngle(p1, p2) ==
    LET deltaY == RSub(p2.y, p1.y)
        deltaX == RSub(p2.x, p1.x)
    IN  Atan2Deg(deltaY, deltaX)

(***************************************************************************)
(* checkCompliance (lib/compliance.ts)                                     *)
(*                                                                         *)
(* A message is [text, arg]: the template literal with % at the place of   *)
(* its interpolated number, and that number (0 when there is none;         *)
(* toFixed(1) values are in tenths).  The check mark and the degree sign   *)
(* of the source strings are written "(ok)" and "deg".                     *)
(***************************************************************************)
Msg(text, arg) == [text |-> text, arg |-> arg]

Check(id, label, passed, message) ==
    [id |-> id, label |-> label, passed |-> passed, message |-> message]

initialMetrics(fs) ==
    [faceCount |-> Len(fs),
     headHeightPercent |-> R(0),
     eyeHeightPercent |-> R(0),
     headTiltDegrees |-> R(0),
     horizontalCenterOffset |-> R(0)]

\* mutant: the check accepts any non-empty list
faceCountPassed_AtLeastOne(fs) == Len(fs) >= 1

faceCountPassed(fs) == Len(fs) = 1

faceCountCheck(fs) ==
    Check("face-count", "Single Face Detected", faceCountPassed(fs),
          IF Len(fs) = 0
          THEN Msg("No face detected. Please ensure your face is clearly visible.", 0)
          ELSE IF Len(fs) > 1
               THEN Msg("% faces detected. Only one person should be in the photo.", Len(fs))
               ELSE Msg("One face detected (ok)", 0))

headHeightPixels(boundingBox) == RMul(boundingBox.height, Frac(125, 100))

headHeightPercent(imgH, boundingBox) ==
    RMul(RDiv(headHeightPixels(boundingBox), imgH), R(100))

minHeadPixels == 150

\* mutant: strict comparison against the floor
headSizePassed_Strict(boundingBox) == RGt(headHeightPixels(boundingBox), R(minHeadPixels))

headSizePassed(boundingBox) == RGe(headHeightPixels(boundingBox), R(minHeadPixels))

headSizeCheck(boundingBox) ==
    Check("head-size", "Head Size", headSizePassed(boundingBox),
          IF RLt(headHeightPixels(boundingBox), R(minHeadPixels))
          THEN Msg("Face too small (%px). Move closer to the camera for better quality.",
                   Round(headHeightPixels(boundingBox)))
          ELSE Msg("Head size sufficient (%px) (ok)", Round(headHeightPixels(boundingBox))))

eyeCenterY(landmarks) == RDiv(RAdd(landmarks.leftEye.y, landmarks.rightEye.y), R(2))

eyeCenterX(landmarks) == RDiv(RAdd(landmarks.leftEye.x, landmarks.rightEye.x), R(2))

\* mutant: the eye line is measured from the top of the image
eyeHeightFromBottom_FromTop(imgH, landmarks) == eyeCenterY(landmarks)


eyeHeightFromBottom(imgH, landmarks) == RSub(imgH, eyeCenterY(landmarks))

eyeHeightPercent(imgH, landmarks) ==
    RMul(RDiv(eyeHeightFromBottom(imgH, landmarks), imgH), R(100))

estimatedFullHead(boundingBox) == boundingBox.height

targetHeadPercent == Frac(595, 1000)

cropSourceHeight(boundingBox) == RDiv(estimatedFullHead(boundingBox), targetHeadPercent)

targetEyeFromTop(boundingBox) ==
    RMul(cropSourceHeight(boundingBox), RSub(R(1), Frac(625, 1000)))

neededAboveEyes(boundingBox) == targetEyeFromTop(boundingBox)

availableAboveEyes(landmarks) == eyeCenterY(landmarks)

neededBelowEyes(boundingBox) ==
    RSub(cropSourceHeight(boundingBox), targetEyeFromTop(boundingBox))

availableBelowEyes(imgH, landmarks) == RSub(imgH, eyeCenterY(landmarks))

\* mutant: only the space below the eyes is required
hasEnoughMargin_BelowOnly(imgH, face) ==
    RGe(availableBelowEyes(imgH, face.landmarks),
        RMul(neededBelowEyes(face.boundingBox), Frac(95, 100)))

hasEnoughMargin(imgH, face) ==
    /\ RGe(availableAboveEyes(face.landmarks),
           RMul(neededAboveEyes(face.boundingBox), Frac(95, 100)))
    /\ RGe(availableBelowEyes(imgH, face.landmarks),
           RMul(neededBelowEyes(face.boundingBox), Frac(95, 100)))

eyeHeightCheck(imgH, face) ==
    Check("eye-height", "Framing Margin", hasEnoughMargin(imgH, face),
          IF ~hasEnoughMargin(imgH, face)
          THEN IF RLt(availableAboveEyes(face.landmarks),
                      RMul(neededAboveEyes(face.boundingBox), Frac(95, 100)))
               THEN Msg("Not enough space above head. Move down or step back from the camera.", 0)
               ELSE Msg("Not enough space below chin. Move up or step back from the camera.", 0)
          ELSE Msg("Sufficient framing margin for crop (ok)", 0))

\* mutant: the raw angle is not folded back below 90 degrees
headTiltDegrees_NoFold(landmarks) ==
    RAbs(calculateAngle(landmarks.leftEye, landmarks.rightEye))

headTiltDegrees(landmarks) ==
    LET eyeAngle == calculateAngle(landmarks.leftEye, landmarks.rightEye)
    IN  IF RGt(RAbs(eyeAngle), R(90))
        THEN RSub(R(180), RAbs(eyeAngle))
        ELSE RAbs(eyeAngle)

\* mutant: a tilt of exactly 5 degrees is rejected
headTiltCheck_Strict(landmarks) ==
    Check("head-tilt", "Head Alignment", RLt(headTiltDegrees(landmarks), R(5)),
          IF RGe(headTiltDegrees(landmarks), R(5))
          THEN Msg("Head is tilted % deg. Keep your head level.",
                   ToFixed1(headTiltDegrees(landmarks)))
          ELSE Msg("Head alignment correct (tilt: % deg) (ok)",
                   ToFixed1(headTiltDegrees(landmarks))))

headTiltCheck(landmarks) ==
    Check("head-tilt", "Head Alignment", RLe(headTiltDegrees(landmarks), R(5)),
          IF RGt(headTiltDegrees(landmarks), R(5))
          THEN Msg("Head is tilted % deg. Keep your head level.",
                   ToFixed1(headTiltDegrees(landmarks)))
          ELSE Msg("Head alignment correct (tilt: % deg) (ok)",
                   ToFixed1(headTiltDegrees(landmarks))))

faceCenterX(boundingBox) == RAdd(boundingBox.originX, RDiv(boundingBox.width, R(2)))

imageCenterX(imgW) == RDiv(imgW, R(2))

horizontalOffsetPercent(imgW, boundingBox) ==
    RMul(RDiv(RAbs(RSub(faceCenterX(boundingBox), imageCenterX(imgW))), imgW), R(100))

\* mutant: an offset of exactly 10 percent is rejected
centeringCheck_Strict(imgW, boundingBox) ==
    Check("horizontal-centering", "Horizontal Centering",
          RLt(horizontalOffsetPercent(imgW, boundingBox), R(10)),
          IF RGe(horizontalOffsetPercent(imgW, boundingBox), R(10))
          THEN IF RLt(faceCenterX(boundingBox), imageCenterX(imgW))
               THEN Msg("Face too far left. Center yourself in the frame.", 0)
               ELSE Msg("Face too far right. Center yourself in the frame.", 0)
          ELSE Msg("Face centered horizontally (ok)", 0))


centeringCheck(imgW, boundingBox) ==
    Check("horizontal-centering", "Horizontal Centering",
          RLe(horizontalOffsetPercent(imgW, boundingBox), R(10)),
          IF RGt(horizontalOffsetPercent(imgW, boundingBox), R(10))
          THEN IF RLt(faceCenterX(boundingBox), imageCenterX(imgW))
               THEN Msg("Face too far left. Center yourself in the frame.", 0)
               ELSE Msg("Face too far right. Center yourself in the frame.", 0)
          ELSE Msg("Face centered horizontally (ok)", 0))

\* mutant: some() in place of every()
allPassed_Some(checks) == \E i \in 1..Len(checks) : checks[i].passed

\* checks.every((check) => check.passed)
allPassed(checks) == \A i \in 1..Len(checks) : checks[i].passed

fullMetrics(imgW, imgH, fs) ==
    [faceCount |-> initialMetrics(fs).faceCount,
     headHeightPercent |-> headHeightPercent(imgH, fs[1].boundingBox),
     eyeHeightPercent |-> eyeHeightPercent(imgH, fs[1].landmarks),
     headTiltDegrees |-> headTiltDegrees(fs[1].landmarks),
     horizontalCenterOffset |-> horizontalOffsetPercent(imgW, fs[1].boundingBox)]

\* mutant: the list stops at a failed head-size check
fullChecks_StopAtHeadSize(imgW, imgH, fs) ==
    IF ~headSizePassed(fs[1].boundingBox)
    THEN <<faceCountCheck(fs), headSizeCheck(fs[1].boundingBox)>>
    ELSE <<faceCountCheck(fs),
           headSizeCheck(fs[1].boundingBox),
           eyeHeightCheck(imgH, fs[1]),
           headTiltCheck(fs[1].landmarks),
           centeringCheck(imgW, fs[1].boundingBox)>>

fullChecks(imgW, imgH, fs) ==
    <<faceCountCheck(fs),
      headSizeCheck(fs[1].boundingBox),
      eyeHeightCheck(imgH, fs[1]),
      headTiltCheck(fs[1].landmarks),
      centeringCheck(imgW, fs[1].boundingBox)>>

earlyReturn(fs) ==
    [passed |-> FALSE, checks |-> <<faceCountCheck(fs)>>, metrics |-> initialMetrics(fs)]

\* mutant: faceData handed on only when every check passed
fullReturn_FaceDataOnPass(imgW, imgH, fs) ==
    IF allPassed(fullChecks(imgW, imgH, fs))
    THEN [passed |-> TRUE,
          checks |-> fullChecks(imgW, imgH, fs),
          metrics |-> fullMetrics(imgW, imgH, fs),
          faceData |-> fs[1]]
    ELSE [passed |-> FALSE,
          checks |-> fullChecks(imgW, imgH, fs),
          metrics |-> fullMetrics(imgW, imgH, fs)]

fullReturn(imgW, imgH, fs) ==
    [passed |-> allPassed(fullChecks(imgW, imgH, fs)),
     checks |-> fullChecks(imgW, imgH, fs),
     metrics |-> fullMetrics(imgW, imgH, fs),
     faceData |-> fs[1]]

\* mutant: the early return taken only for an empty list
checkCompliance_GateOnEmpty(imgW, imgH, fs) ==
    IF Len(fs) = 0 THEN earlyReturn(fs) ELSE fullReturn(imgW, imgH, fs)

checkCompliance(imgW, imgH, fs) ==
    IF Len(fs) # 1 THEN earlyReturn(fs) ELSE fullReturn(imgW, imgH, fs)

(***************************************************************************)
(* cropToPassport (lib/cropPhoto.ts)                                       *)
(***************************************************************************)
outputSize == 600

cropEyeCenterY(landmarks) == RDiv(RAdd(landmarks.leftEye.y, landmarks.rightEye.y), R(2))

cropEyeCenterX(landmarks) == RDiv(RAdd(landmarks.leftEye.x, landmarks.rightEye.x), R(2))

targetEyeHeightFromBottom == RMul(R(outputSize), Frac(625, 1000))

targetHeadHeightPercent == Frac(595, 1000)

targetHeadHeight == RMul(R(outputSize), targetHeadHeightPercent)

\* mutant: the bounding box is taken as the full head
currentHeadHeight_BoxOnly(boundingBox) == boundingBox.height


currentHeadHeight(boundingBox) == RMul(boundingBox.height, Frac(125, 100))

\* mutant: the target is the whole output height
scale_FullFrame(boundingBox) == RDiv(R(outputSize), boundingBox.height)


scale(boundingBox) == RDiv(targetHeadHeight, currentHeadHeight(boundingBox))

sourceCropWidth(boundingBox) == RDiv(R(outputSize), scale(boundingBox))

sourceCropHeight(boundingBox) == RDiv(R(outputSize), scale(boundingBox))

\* let sourceCropX = eyeCenterX - sourceCropWidth / 2
idealCropX(face) ==
    RSub(cropEyeCenterX(face.landmarks), RDiv(sourceCropWidth(face.boundingBox), R(2)))

\* let sourceCropY = eyeCenterY - (outputSize - targetEyeHeightFromBottom) / scale
idealCropY(face) ==
    RSub(cropEyeCenterY(face.landmarks),
         RDiv(RSub(R(outputSize), targetEyeHeightFromBottom), scale(face.boundingBox)))

\* mutant: the origin is clamped at 0 only
clampOrigin_LowerOnly(origin, sourceDimension, cropSide) == RMax(R(0), origin)

\* Math.max(0, Math.min(origin, sourceDimension - cropSide))
clampOrigin(origin, sourceDimension, cropSide) ==
    RMax(R(0), RMin(origin, RSub(sourceDimension, cropSide)))

sourceCropX(sourceWidth, face) ==
    clampOrigin(idealCropX(face), sourceWidth, sourceCropWidth(face.boundingBox))

sourceCropY(sourceHeight, face) ==
    clampOrigin(idealCropY(face), sourceHeight, sourceCropHeight(face.boundingBox))

\* mutant: the drawn extent is never shrunk
actualCropSide_NoShrink(cropSide, sourceDimension, origin) == cropSide

\* Math.min(cropSide, sourceDimension - origin)
actualCropSide(cropSide, sourceDimension, origin) ==
    RMin(cropSide, RSub(sourceDimension, origin))

actualCropWidth(sourceWidth, face) ==
    actualCropSide(sourceCropWidth(face.boundingBox), sourceWidth,
                   sourceCropX(sourceWidth, face))

actualCropHeight(sourceHeight, face) ==
    actualCropSide(sourceCropHeight(face.boundingBox), sourceHeight,
                   sourceCropY(sourceHeight, face))

\* mutant: the source window is drawn first and the white fill painted over it
cropToPassport_DrawFirst(sourceWidth, sourceHeight, faceData, ctx) ==
    IF ~ctx
    THEN [status |-> "thrown", error |-> "Failed to get canvas context"]
    ELSE [status |-> "returned",
          width |-> outputSize,
          height |-> outputSize,
          faceData |-> faceData,
          ops |-> <<[op |-> "drawImage",
                     sx |-> sourceCropX(sourceWidth, faceData),
                     sy |-> sourceCropY(sourceHeight, faceData),
                     sw |-> actualCropWidth(sourceWidth, faceData),
                     sh |-> actualCropHeight(sourceHeight, faceData),
                     dx |-> 0, dy |-> 0, dw |-> outputSize, dh |-> outputSize],
                    [op |-> "fillRect", fillStyle |-> "#FFFFFF",
                     x |-> 0, y |-> 0, w |-> outputSize, h |-> outputSize]>>]


\* the canvas after fillRect and drawImage; ops lists the drawing calls in order
cropToPassport(sourceWidth, sourceHeight, faceData, ctx) ==
    IF ~ctx
    THEN [status |-> "thrown", error |-> "Failed to get canvas context"]
    ELSE [status |-> "returned",
          width |-> outputSize,
          height |-> outputSize,
          faceData |-> faceData,
          ops |-> <<[op |-> "fillRect", fillStyle |-> "#FFFFFF",
                     x |-> 0, y |-> 0, w |-> outputSize, h |-> outputSize],
                    [op |-> "drawImage",
                     sx |-> sourceCropX(sourceWidth, faceData),
                     sy |-> sourceCropY(sourceHeight, faceData),
                     sw |-> actualCropWidth(sourceWidth, faceData),
                     sh |-> actualCropHeight(sourceHeight, faceData),
                     dx |-> 0, dy |-> 0, dw |-> outputSize, dh |-> outputSize]>>]

(***************************************************************************)
(* getComplianceSummary (lib/compliance.ts): the template literal with %   *)
(* at the place of failedCount                                             *)
(***************************************************************************)
failedCount(checks) == Cardinality({i \in 1..Len(checks) : ~checks[i].passed})

\* mutant: the plural is used from one failed requirement on
getComplianceSummary_PluralFromOne(r) ==
    IF r.passed
    THEN Msg("Photo meets all US passport requirements (ok)", 0)
    ELSE Msg(IF failedCount(r.checks) >= 1 THEN "% requirements not met"
                                           ELSE "% requirement not met",
             failedCount(r.checks))

getComplianceSummary(r) ==
    IF r.passed
    THEN Msg("Photo meets all US passport requirements (ok)", 0)
    ELSE Msg(IF failedCount(r.checks) > 1 THEN "% requirements not met"
                                          ELSE "% requirement not met",
             failedCount(r.checks))

(***************************************************************************)
(* getComplianceErrorMessage (page.tsx): string | null                     *)
(***************************************************************************)
Null == [status |-> "null"]

NotPassed(c) == ~c.passed

IsFaceCount(c) == c.id = "face-count"

\* mutant: the last failing check is reported
getComplianceErrorMessage_Last(compliance) ==
    IF compliance.passed THEN Null
    ELSE LET failedChecks == SelectSeq(compliance.checks, NotPassed)
         IN  IF Len(failedChecks) = 0 THEN Null
             ELSE [status |-> "message",
                   value |-> failedChecks[Len(failedChecks)].message]

getComplianceErrorMessage(compliance) ==
    IF compliance.passed THEN Null
    ELSE LET failedChecks == SelectSeq(compliance.checks, NotPassed)
             found == SelectSeq(failedChecks, IsFaceCount)
             criticalCheck == IF Len(found) > 0 THEN found[1] ELSE failedChecks[1]
         IN  IF Len(failedChecks) = 0 THEN Null
             ELSE [status |-> "message", value |-> criticalCheck.message]

(***************************************************************************)
(* Inputs: image sizes and detected faces                                  *)
(***************************************************************************)
Pt(x, y) == [x |-> x, y |-> y]

ImageSizes == {<<1000, 1000>>, <<640, 480>>, <<1200, 1600>>}

BoxHeights == {Frac(11999, 100), R(120), R(300), R(600)}

BoxOriginXs == {R(380), R(280), R(230), R(530)}

LeftEyes == {Pt(R(440), R(450)), Pt(R(440), R(200)), Pt(R(440), R(900)), Pt(R(-30), R(450))}

RightEyes ==
    {Pt(R(560), R(450)), Pt(R(560), Frac(4669, 10)), Pt(R(560), R(460)),
     Pt(R(320), R(450)), Pt(R(560), R(200)), Pt(R(1100), R(900)),
     Pt(R(1073), Frac(1093, 2))}

Face(h, ox, le, re) ==
    [boundingBox |-> [originX |-> ox, originY |-> R(300), width |-> R(240), height |-> h],
     landmarks |-> [leftEye |-> le, rightEye |-> re,
                    nose |-> Pt(R(500), R(520)), mouth |-> Pt(R(500), R(580))],
     confidence |-> Frac(9, 10)]

\* extractLandmarks (lib/faceDetection.ts): keypoints 0..3 are right eye, left
\* eye, nose tip and mouth in fractions of the image; with fewer than four
\* keypoints every landmark stays at (0, 0)
extractLandmarks(keypoints, imgW, imgH) ==
    LET Scaled(k) == Pt(RMul(k.x, imgW), RMul(k.y, imgH))
    IN  IF Len(keypoints) >= 4
        THEN [leftEye |-> Scaled(keypoints[2]), rightEye |-> Scaled(keypoints[1]),
              nose |-> Scaled(keypoints[3]), mouth |-> Scaled(keypoints[4])]
        ELSE [leftEye |-> Pt(R(0), R(0)), rightEye |-> Pt(R(0), R(0)),
              nose |-> Pt(R(0), R(0)), mouth |-> Pt(R(0), R(0))]

\* detections of a 1000 x 1000 image: the four keypoints of the level
\* scenario face, and detections that came with too few keypoints
Keypoints ==
    {<<Pt(Frac(56, 100), Frac(45, 100)), Pt(Frac(44, 100), Frac(45, 100)),
       Pt(Frac(50, 100), Frac(52, 100)), Pt(Frac(50, 100), Frac(58, 100))>>,
     <<Pt(Frac(56, 100), Frac(45, 100)), Pt(Frac(44, 100), Frac(45, 100)),
       Pt(Frac(50, 100), Frac(52, 100))>>,
     <<>>}

DetectedFaces ==
    {[Face(h, ox, Pt(R(0), R(0)), Pt(R(0), R(0))) EXCEPT
         !.landmarks = extractLandmarks(kp, R(1000), R(1000))] :
       h \in BoxHeights, ox \in BoxOriginXs, kp \in Keypoints}

Faces == {Face(h, ox, le, re) : h \in BoxHeights, ox \in BoxOriginXs,
                                le \in LeftEyes, re \in RightEyes}
         \cup DetectedFaces

\* the faces that appear in lists of two or more
GroupFaces ==
    {Face(R(300), R(380), Pt(R(440), R(450)), Pt(R(560), R(450))),
     Face(R(120), R(230), Pt(R(440), R(200)), Pt(R(560), R(460)))}

FaceLists ==
    {<<>>} \cup {<<f>> : f \in Faces}
           \cup UNION {[1..n -> GroupFaces] : n \in 2..MaxFaces}

(***************************************************************************)
(* State machine: a caller holding one image and its detections calls the  *)
(* two exported functions.                                                 *)
(***************************************************************************)
Undefined == [status |-> "undefined"]

\* processPassportPhoto before its first statement: no call made, no local set
processingStart ==
    [pc |-> "load", calls |-> <<>>, compliance |-> Undefined,
     croppedCanvas |-> Undefined, croppedDataURL |-> Undefined,
     croppedBlob |-> Undefined]

\* useState initial values of Home
homeStart ==
    [currentStep |-> "instructions", capturedPhoto |-> FALSE,
     processingResult |-> [status |-> "null"], processingError |-> [status |-> "null"],
     isProcessing |-> FALSE]

\* the face-detection module after import: no detector, no load, no caller
MaxCallers == 2

MaxLoads == 2

Callers == 1..MaxCallers

callerIdle == [fn |-> "none", pc |-> "idle", init |-> "none", error |-> "none"]

detectorStart ==
    [faceDetector |-> FALSE, isLoading |-> FALSE, loadError |-> FALSE, created |-> 0,
     callers |-> [p \in Callers |-> callerIdle]]

\* the Camera component is not rendered yet; no MediaStream exists.  Streams
\* are numbered from 1 in the order getUserMedia hands them out, 0 is null.
cameraStart ==
    [mounted |-> FALSE, capturedPhoto |-> FALSE, stream |-> 0, facingMode |-> "user",
     effectStream |-> 0, pending |-> 0, pendingUnmounted |-> 0, created |-> 0,
     live |-> {}]


Init ==
    /\ \E sz \in ImageSizes : imageWidth = sz[1] /\ imageHeight = sz[2]
    /\ faces \in FaceLists
    /\ result = [status |-> "none"]
    /\ canvas = [status |-> "none"]
    /\ processing = processingStart
    /\ errorMessage = [status |-> "none"]
    /\ summary = [status |-> "none"]
    /\ home = homeStart
    /\ detector = detectorStart
    /\ sheet = [status |-> "none"]
    /\ camera = cameraStart

\* mutant: the checks array lives outside the function and keeps the entries
\* of the earlier call
CheckCompliance_SharedChecks ==
    /\ IF result.status = "none" THEN TRUE ELSE Len(result.value.checks) <= 5
    /\ LET r == checkCompliance(R(imageWidth), R(imageHeight), faces)
       IN  result' = [status |-> "returned",
                      value |-> IF result.status = "none" THEN r
                                ELSE [r EXCEPT !.checks = result.value.checks \o r.checks]]
    /\ UNCHANGED <<summary, home, detector, sheet, camera, imageWidth, imageHeight, faces, canvas, processing, errorMessage>>


CheckCompliance ==
    /\ result' = [status |-> "returned",
                  value |-> checkCompliance(R(imageWidth), R(imageHeight), faces)]
    /\ UNCHANGED <<summary, home, detector, sheet, camera, imageWidth, imageHeight, faces, canvas, processing, errorMessage>>

CropToPassport ==
    /\ \E i \in 1..Len(faces), ctx \in BOOLEAN :
          canvas' = cropToPassport(R(imageWidth), R(imageHeight), faces[i], ctx)
    /\ UNCHANGED <<summary, home, detector, sheet, camera, imageWidth, imageHeight, faces, result, processing, errorMessage>>

\* a caller passes the result it holds to getComplianceErrorMessage
GetComplianceErrorMessage ==
    /\ result.status = "returned"
    /\ errorMessage' = getComplianceErrorMessage(result.value)
    /\ UNCHANGED <<summary, home, detector, sheet, camera, imageWidth, imageHeight, faces, result, canvas, processing>>

\* a caller passes the result it holds to getComplianceSummary
GetComplianceSummary ==
    /\ result.status = "returned"
    /\ summary' = [status |-> "returned", value |-> getComplianceSummary(result.value)]
    /\ UNCHANGED <<home, detector, sheet, camera, imageWidth, imageHeight, faces, result, canvas, processing, errorMessage>>

Next == CheckCompliance \/ CropToPassport \/ GetComplianceErrorMessage

\* the result of a check handed to the two reporting functions
NextReport == CheckCompliance \/ GetComplianceErrorMessage \/ GetComplianceSummary

SpecReport == Init /\ [][NextReport]_vars

Spec == Init /\ [][Next]_vars

(***************************************************************************)
(* processPassportPhoto: one run on the image, whose detections are faces. *)
(* Each action is one statement of the function; a rejected await or a     *)
(* throw ends the run in pc = "thrown".                                    *)
(***************************************************************************)
Thrown(message) == [pc |-> "thrown", calls |-> processing.calls, error |-> message]

\* if (imageFile instanceof File) imageElement = await loadImageFromFile(imageFile)
LoadImage ==
    /\ processing.pc = "load"
    /\ \E isFile \in BOOLEAN,
          loaded \in {"ok", "Failed to load image", "Failed to read file"} :
          processing' = IF isFile /\ loaded # "ok"
                        THEN Thrown(loaded)
                        ELSE [processing EXCEPT !.pc = "initialize"]
    /\ UNCHANGED <<summary, home, detector, sheet, camera, imageWidth, imageHeight, faces, result, canvas, errorMessage>>

\* await initializeFaceDetector()
InitializeFaceDetector ==
    /\ processing.pc = "initialize"
    /\ \E ok \in BOOLEAN :
          processing' = IF ok
                        THEN [processing EXCEPT
                                !.pc = "detect",
                                !.calls = Append(@, "initializeFaceDetector")]
                        ELSE Thrown("Failed to initialize face detector")
    /\ UNCHANGED <<summary, home, detector, sheet, camera, imageWidth, imageHeight, faces, result, canvas, errorMessage>>

\* const faces = await detectFaces(imageElement)
DetectFaces ==
    /\ processing.pc = "detect"
    /\ \E ok \in BOOLEAN :
          processing' = IF ok
                        THEN [processing EXCEPT
                                !.pc = "check",
                                !.calls = Append(@, "detectFaces")]
                        ELSE Thrown("Face detection failed")
    /\ UNCHANGED <<summary, home, detector, sheet, camera, imageWidth, imageHeight, faces, result, canvas, errorMessage>>

\* mutant: the crop is attempted whenever a face was evaluated
shouldCrop_AnyFace(compliance) == "faceData" \in DOMAIN compliance

\* if (compliance.passed && compliance.faceData)
shouldCrop(compliance) == compliance.passed /\ "faceData" \in DOMAIN compliance

\* const compliance = checkCompliance(imageElement.width, imageElement.height, faces)
RunCompliance ==
    /\ processing.pc = "check"
    /\ LET compliance == checkCompliance(R(imageWidth), R(imageHeight), faces)
       IN  processing' = [processing EXCEPT
                            !.pc = IF shouldCrop(compliance) THEN "crop" ELSE "return",
                            !.calls = Append(@, "checkCompliance"),
                            !.compliance = [status |-> "defined", value |-> compliance]]
    /\ UNCHANGED <<summary, home, detector, sheet, camera, imageWidth, imageHeight, faces, result, canvas, errorMessage>>

\* croppedCanvas = cropToPassport(imageElement, compliance.faceData)
Crop ==
    /\ processing.pc = "crop"
    /\ \E ctx \in BOOLEAN :
          LET c == cropToPassport(R(imageWidth), R(imageHeight),
                                  processing.compliance.value.faceData, ctx)
          IN  processing' = IF c.status = "thrown"
                            THEN [Thrown(c.error) EXCEPT
                                    !.calls = Append(@, "cropToPassport")]
                            ELSE [processing EXCEPT
                                    !.pc = "dataURL",
                                    !.calls = Append(@, "cropToPassport"),
                                    !.croppedCanvas = c]
    /\ UNCHANGED <<summary, home, detector, sheet, camera, imageWidth, imageHeight, faces, result, canvas, errorMessage>>

\* croppedDataURL = canvasToDataURL(croppedCanvas, 'image/jpeg', 0.95)
ToDataURL ==
    /\ processing.pc = "dataURL"
    /\ processing' = [processing EXCEPT
                         !.pc = "blob",
                         !.calls = Append(@, "canvasToDataURL"),
                         !.croppedDataURL = [status |-> "defined", format |-> "image/jpeg",
                                             quality |-> Frac(95, 100)]]
    /\ UNCHANGED <<summary, home, detector, sheet, camera, imageWidth, imageHeight, faces, result, canvas, errorMessage>>

\* croppedBlob = await canvasToBlob(croppedCanvas, 'image/jpeg', 0.95)
ToBlob ==
    /\ processing.pc = "blob"
    /\ \E blob \in BOOLEAN :
          processing' = IF blob
                        THEN [processing EXCEPT
                                !.pc = "return",
                                !.calls = Append(@, "canvasToBlob"),
                                !.croppedBlob = [status |-> "defined", format |-> "image/jpeg",
                                                 quality |-> Frac(95, 100)]]
                        ELSE [Thrown("Failed to create blob from canvas") EXCEPT
                                !.calls = Append(@, "canvasToBlob")]
    /\ UNCHANGED <<summary, home, detector, sheet, camera, imageWidth, imageHeight, faces, result, canvas, errorMessage>>

\* return { compliance, croppedCanvas, croppedDataURL, croppedBlob, originalImage }
ReturnResult ==
    /\ processing.pc = "return"
    /\ processing' = [processing EXCEPT !.pc = "returned"]
    /\ UNCHANGED <<summary, home, detector, sheet, camera, imageWidth, imageHeight, faces, result, canvas, errorMessage>>

NextProcess ==
    \/ LoadImage \/ InitializeFaceDetector \/ DetectFaces \/ RunCompliance
    \/ Crop \/ ToDataURL \/ ToBlob \/ ReturnResult

SpecProcess == Init /\ [][NextProcess]_vars

(***************************************************************************)
(* Home page (app/page.tsx): the four steps and the handlers that move     *)
(* between them.  While the step is 'processing' the run of                *)
(* processPassportPhoto started by handlePhotoConfirmed advances; the page *)
(* offers no button in that step.                                          *)
(***************************************************************************)
\* onClick={() => setCurrentStep('capture')} of the instructions step
HomeStart ==
    /\ home.currentStep = "instructions"
    /\ home' = [home EXCEPT !.currentStep = "capture"]
    /\ UNCHANGED <<summary, detector, sheet, camera, imageWidth, imageHeight, faces, result, canvas, processing, errorMessage>>

\* onBack={() => setCurrentStep('instructions')} of PhotoCapture
HomeBack ==
    /\ home.currentStep = "capture"
    /\ home' = [home EXCEPT !.currentStep = "instructions"]
    /\ UNCHANGED <<summary, detector, sheet, camera, imageWidth, imageHeight, faces, result, canvas, processing, errorMessage>>

\* handlePhotoConfirmed up to its first await
HandlePhotoConfirmed ==
    /\ home.currentStep = "capture"
    /\ home' = [home EXCEPT !.capturedPhoto = TRUE, !.currentStep = "processing",
                            !.isProcessing = TRUE, !.processingError = [status |-> "null"]]
    /\ processing' = processingStart
    /\ UNCHANGED <<summary, detector, sheet, camera, imageWidth, imageHeight, faces, result, canvas, errorMessage>>

\* the image load and processPassportPhoto advance by one statement
HomeProcessing ==
    /\ home.currentStep = "processing"
    /\ NextProcess

\* mutant: a finished run only stores its result
HomeProcessingCompletes_StayInProcessing ==
    /\ home.currentStep = "processing"
    /\ home.processingResult.status = "null"
    /\ processing.pc = "returned"
    /\ home' = [home EXCEPT !.processingResult =
                               [status |-> "result",
                                passed |-> processing.compliance.value.passed,
                                cropped |-> processing.croppedCanvas.status # "undefined"],
                            !.isProcessing = FALSE]
    /\ UNCHANGED <<summary, detector, sheet, camera, imageWidth, imageHeight, faces, result, canvas, processing, errorMessage>>

\* setProcessingResult(result); setCurrentStep('results'); finally
HomeProcessingCompletes ==
    /\ home.currentStep = "processing"
    /\ processing.pc = "returned"
    /\ home' = [home EXCEPT !.processingResult =
                               [status |-> "result",
                                passed |-> processing.compliance.value.passed,
                                cropped |-> processing.croppedCanvas.status # "undefined"],
                            !.currentStep = "results",
                            !.isProcessing = FALSE]
    /\ UNCHANGED <<summary, detector, sheet, camera, imageWidth, imageHeight, faces, result, canvas, processing, errorMessage>>

\* catch (error): setProcessingError(error.message); setCurrentStep('results'); finally
HomeProcessingThrows ==
    /\ home.currentStep = "processing"
    /\ processing.pc = "thrown"
    /\ home' = [home EXCEPT !.processingError =
                               [status |-> "message", value |-> processing.error],
                            !.currentStep = "results",
                            !.isProcessing = FALSE]
    /\ UNCHANGED <<summary, detector, sheet, camera, imageWidth, imageHeight, faces, result, canvas, processing, errorMessage>>

\* handleRetake: 'Try Again' of the error state, 'Retake Photo' of the success state
HandleRetake ==
    /\ home.currentStep = "results"
    /\ \/ home.processingError.status # "null"
       \/ home.processingResult.status # "null"
    /\ home' = [home EXCEPT !.capturedPhoto = FALSE,
                            !.processingResult = [status |-> "null"],
                            !.processingError = [status |-> "null"],
                            !.currentStep = "capture"]
    /\ UNCHANGED <<summary, detector, sheet, camera, imageWidth, imageHeight, faces, result, canvas, processing, errorMessage>>

\* handleStartOver: offered in the success state only
HandleStartOver ==
    /\ home.currentStep = "results"
    /\ home.processingResult.status # "null" /\ home.processingError.status = "null"
    /\ home' = [home EXCEPT !.capturedPhoto = FALSE,
                            !.processingResult = [status |-> "null"],
                            !.processingError = [status |-> "null"],
                            !.currentStep = "instructions"]
    /\ UNCHANGED <<summary, detector, sheet, camera, imageWidth, imageHeight, faces, result, canvas, processing, errorMessage>>

NextHome ==
    \/ HomeStart \/ HomeBack \/ HandlePhotoConfirmed \/ HomeProcessing
    \/ HomeProcessingCompletes \/ HomeProcessingThrows
    \/ HandleRetake \/ HandleStartOver

SpecHome == Init /\ [][NextHome]_vars

(***************************************************************************)
(* Face-detection module (lib/faceDetection.ts) with concurrent callers.   *)
(*                                                                         *)
(* detector holds the three module variables (faceDetector and loadError   *)
(* as "is not null"), the number of detectors created, and per caller the  *)
(* exported function it is in (fn), its position (pc) and what it saw when *)
(* its initializeFaceDetector call resolved (init).  An async function     *)
(* runs without interruption up to its next await, so an action is the     *)
(* code between two awaits.                                                *)
(***************************************************************************)
LoadsInFlight(d) == Cardinality({p \in Callers : d.callers[p].pc \in {"resolver", "create"}})

\* the caller's promise is rejected
callerThrows(d, p, message) ==
    [d EXCEPT !.callers[p].pc = "thrown", !.callers[p].error = message]

\* detectFaces from line 112 on: the null check, then faceDetector.detect
detectFacesBody(d, p, detectOk) ==
    IF ~d.faceDetector THEN callerThrows(d, p, "Face detector not initialized")
    ELSE IF ~detectOk THEN callerThrows(d, p, "Face detection failed")
    ELSE [d EXCEPT !.callers[p].pc = "resolved"]

\* initializeFaceDetector resolves for caller p, which continues behind its await
initResolves(d, p, detectOk) ==
    LET seen == [d EXCEPT !.callers[p].init =
                             IF d.faceDetector THEN "detector" ELSE "no detector"]
    IN  IF d.callers[p].fn = "detectFaces"
        THEN detectFacesBody(seen, p, detectOk)
        ELSE [seen EXCEPT !.callers[p].pc = "resolved"]

\* mutant: the error of an earlier load is kept
startLoad_KeepError(d, p) ==
    [d EXCEPT !.isLoading = TRUE, !.callers[p].pc = "resolver"]

\* isLoading = true; loadError = null; then the await of FilesetResolver
startLoad(d, p) ==
    [d EXCEPT !.isLoading = TRUE, !.loadError = FALSE, !.callers[p].pc = "resolver"]

\* mutant: a call does not look at isLoading
initializeFaceDetector_NoLoadingCheck(d, p, detectOk) ==
    IF d.faceDetector THEN initResolves(d, p, detectOk)
    ELSE startLoad(d, p)

\* initializeFaceDetector up to its first await
initializeFaceDetector(d, p, detectOk) ==
    IF d.faceDetector THEN initResolves(d, p, detectOk)
    ELSE IF d.isLoading THEN [d EXCEPT !.callers[p].pc = "waiting"]
    ELSE startLoad(d, p)

\* catch (error) { loadError = error; throw ... } finally { isLoading = false }
loadFails(d, p) ==
    callerThrows([d EXCEPT !.loadError = TRUE, !.isLoading = FALSE], p,
                 "Failed to initialize face detector")

CanCall(p) ==
    /\ detector.callers[p].pc \in {"idle", "resolved", "thrown"}
    /\ detector.created < MaxLoads

\* a caller calls initializeFaceDetector()
CallInitialize ==
    /\ \E p \in Callers :
          /\ CanCall(p)
          /\ detector' = initializeFaceDetector(
                             [detector EXCEPT !.callers[p] =
                                 [callerIdle EXCEPT !.fn = "initializeFaceDetector"]],
                             p, TRUE)
    /\ UNCHANGED <<summary, home, sheet, camera, imageWidth, imageHeight, faces, result, canvas, processing, errorMessage>>

\* a caller calls detectFaces(imageElement)
CallDetectFaces ==
    /\ \E p \in Callers, detectOk \in BOOLEAN :
          /\ CanCall(p)
          /\ LET d == [detector EXCEPT !.callers[p] = [callerIdle EXCEPT !.fn = "detectFaces"]]
             IN  detector' = IF d.faceDetector
                             THEN detectFacesBody(d, p, detectOk)
                             ELSE initializeFaceDetector(d, p, detectOk)
    /\ UNCHANGED <<summary, home, sheet, camera, imageWidth, imageHeight, faces, result, canvas, processing, errorMessage>>

\* while (isLoading) { await new Promise(resolve => setTimeout(resolve, 100)) } return
WaitTimeout ==
    /\ \E p \in Callers, detectOk \in BOOLEAN :
          /\ detector.callers[p].pc = "waiting"
          /\ ~detector.isLoading
          /\ detector' = initResolves(detector, p, detectOk)
    /\ UNCHANGED <<summary, home, sheet, camera, imageWidth, imageHeight, faces, result, canvas, processing, errorMessage>>

\* await FilesetResolver.forVisionTasks(...) settles
ResolverSettles ==
    /\ \E p \in Callers, ok \in BOOLEAN :
          /\ detector.callers[p].pc = "resolver"
          /\ detector' = IF ok THEN [detector EXCEPT !.callers[p].pc = "create"]
                          ELSE loadFails(detector, p)
    /\ UNCHANGED <<summary, home, sheet, camera, imageWidth, imageHeight, faces, result, canvas, processing, errorMessage>>

\* faceDetector = await FaceDetector.createFromOptions(...) settles
CreateSettles ==
    /\ \E p \in Callers, ok \in BOOLEAN, detectOk \in BOOLEAN :
          /\ detector.callers[p].pc = "create"
          /\ detector' = IF ok
                          THEN initResolves([detector EXCEPT !.faceDetector = TRUE,
                                                             !.created = @ + 1,
                                                             !.isLoading = FALSE],
                                            p, detectOk)
                          ELSE loadFails(detector, p)
    /\ UNCHANGED <<summary, home, sheet, camera, imageWidth, imageHeight, faces, result, canvas, processing, errorMessage>>

\* disposeFaceDetector()
DisposeFaceDetector ==
    /\ detector.faceDetector
    /\ detector' = [detector EXCEPT !.faceDetector = FALSE]
    /\ UNCHANGED <<summary, home, sheet, camera, imageWidth, imageHeight, faces, result, canvas, processing, errorMessage>>

NextDetector ==
    CallInitialize \/ CallDetectFaces \/ WaitTimeout \/ ResolverSettles \/ CreateSettles

\* the module is exercised on its own: one image, nothing detected yet
InitDetector ==
    /\ Init
    /\ imageWidth = 1000 /\ imageHeight = 1000 /\ faces = <<>>

SpecDetector == InitDetector /\ [][NextDetector]_vars

NextDetectorDispose == NextDetector \/ DisposeFaceDetector

SpecDetectorDispose == InitDetector /\ [][NextDetectorDispose]_vars

(***************************************************************************)
(* exportAsPrintSheet (lib/exportUtils.ts): the jsPDF calls that place      *)
(* something on the page, lengths in inches.  The x position of the two    *)
(* text lines depends on font metrics and is left out.                     *)
(***************************************************************************)
photoSize == R(2)

gap == Frac(1, 10)

\* new jsPDF({ orientation: 'portrait', unit: 'in', format: [4, 6] })
pageFormat == [width |-> R(4), height |-> R(6)]

positions ==
    <<[x |-> R(0), y |-> R(0)],
      [x |-> RAdd(photoSize, gap), y |-> R(0)],
      [x |-> R(0), y |-> RAdd(photoSize, gap)],
      [x |-> RAdd(photoSize, gap), y |-> RAdd(photoSize, gap)]>>

photoRect(pos) == [x |-> pos.x, y |-> pos.y, w |-> photoSize, h |-> photoSize]

exportAsPrintSheet(cv, filename) ==
    [status |-> "saved",
     filename |-> filename,
     page |-> pageFormat,
     images |-> [i \in 1..Len(positions) |-> photoRect(positions[i])],
     rects |-> [i \in 1..Len(positions) |-> photoRect(positions[i])],
     lineWidth |-> Frac(1, 100),
     texts |-> <<[text |-> "US Passport Photo - %", y |-> Frac(58, 10)],
                 [text |-> "Cut along the gray lines", y |-> Frac(56, 10)]>>]

\* the export panel passes the cropped canvas, with or without a file name
ExportAsPrintSheet ==
    /\ canvas.status = "returned"
    /\ \E filename \in {"passport-photo-print-sheet.pdf", "passport-photo.pdf"} :
          sheet' = exportAsPrintSheet(canvas, filename)
    /\ UNCHANGED <<summary, home, detector, camera, imageWidth, imageHeight, faces, result, canvas, processing, errorMessage>>

NextExport == CropToPassport \/ ExportAsPrintSheet

SpecExport == Init /\ [][NextExport]_vars

(***************************************************************************)
(* Camera component (components/Camera.tsx) inside PhotoCapture.           *)
(*                                                                         *)
(* camera.stream is the useState value of the mounted component,           *)
(* camera.effectStream the value of stream that the closure of the         *)
(* effect installed last captured (the effect depends on isActive and      *)
(* facingMode only, so it is not re-created when stream changes).          *)
(* camera.pending counts getUserMedia promises of the mounted component,   *)
(* camera.pendingUnmounted those of components already unmounted;          *)
(* camera.live is the set of streams with a track that was not stopped.    *)
(***************************************************************************)
MaxStreams == 3

\* stream.getTracks().forEach(track => track.stop()), guarded by if (stream)
stopTracks(live, stream) == live \ {stream}

\* the body of the effect, run after a render in which stream has the value
\* c.stream: the inactive branch, or startCamera up to its await
cameraEffect(c, isActive) ==
    IF ~isActive
    THEN [c EXCEPT !.live = stopTracks(@, c.stream), !.stream = 0, !.effectStream = 0]
    ELSE [c EXCEPT !.live = stopTracks(@, c.stream),
                   !.effectStream = c.stream,
                   !.pending = @ + 1]

\* return () => { if (stream) stream.getTracks().forEach(track => track.stop()) }
cameraCleanup(c) == [c EXCEPT !.live = stopTracks(@, c.effectStream)]

\* React removes the component: its cleanup runs, its promises stay pending
cameraUnmount(c) ==
    [cameraCleanup(c) EXCEPT !.mounted = FALSE,
                             !.pendingUnmounted = @ + c.pending,
                             !.pending = 0]

\* PhotoCapture renders the camera branch (first render, or handleRetake):
\* a new Camera with stream = null and facingMode = 'user', whose effect runs
ShowCamera ==
    /\ ~camera.mounted
    /\ camera.created + camera.pending + camera.pendingUnmounted < MaxStreams
    /\ camera' = cameraEffect([camera EXCEPT !.mounted = TRUE, !.capturedPhoto = FALSE,
                                             !.stream = 0, !.facingMode = "user",
                                             !.effectStream = 0],
                              TRUE)
    /\ UNCHANGED <<summary, home, detector, sheet, imageWidth, imageHeight, faces, result, canvas, processing, errorMessage>>

\* toggleCamera: facingMode changes, the old cleanup runs, then the effect
ToggleCamera ==
    /\ camera.mounted
    /\ camera.created + camera.pending + camera.pendingUnmounted < MaxStreams
    /\ camera' = cameraEffect([cameraCleanup(camera) EXCEPT
                                 !.facingMode = IF @ = "user" THEN "environment" ELSE "user"],
                              ~camera.capturedPhoto)
    /\ UNCHANGED <<summary, home, detector, sheet, imageWidth, imageHeight, faces, result, canvas, processing, errorMessage>>

\* await getUserMedia(constraints) resolves: setStream(mediaStream), which
\* has no effect on a component that is no longer mounted
GetUserMediaResolves ==
    /\ \E ofMounted \in BOOLEAN :
          /\ IF ofMounted THEN camera.pending > 0 ELSE camera.pendingUnmounted > 0
          /\ camera' = [camera EXCEPT
                          !.created = @ + 1,
                          !.live = @ \cup {camera.created + 1},
                          !.stream = IF ofMounted THEN camera.created + 1 ELSE @,
                          !.pending = IF ofMounted THEN @ - 1 ELSE @,
                          !.pendingUnmounted = IF ofMounted THEN @ ELSE @ - 1]
    /\ UNCHANGED <<summary, home, detector, sheet, imageWidth, imageHeight, faces, result, canvas, processing, errorMessage>>

\* getUserMedia rejects: the catch block sets the error text
GetUserMediaRejects ==
    /\ \E ofMounted \in BOOLEAN :
          /\ IF ofMounted THEN camera.pending > 0 ELSE camera.pendingUnmounted > 0
          /\ camera' = [camera EXCEPT
                          !.pending = IF ofMounted THEN @ - 1 ELSE @,
                          !.pendingUnmounted = IF ofMounted THEN @ ELSE @ - 1]
    /\ UNCHANGED <<summary, home, detector, sheet, imageWidth, imageHeight, faces, result, canvas, processing, errorMessage>>

\* capture or file upload calls onCapture: PhotoCapture sets capturedPhoto and
\* renders the preview instead of the Camera
HandleCapture ==
    /\ camera.mounted
    /\ camera' = [cameraUnmount(camera) EXCEPT !.capturedPhoto = TRUE]
    /\ UNCHANGED <<summary, home, detector, sheet, imageWidth, imageHeight, faces, result, canvas, processing, errorMessage>>

\* Back: the page leaves the capture step and PhotoCapture is removed
LeaveCapture ==
    /\ camera.mounted
    /\ camera' = cameraUnmount(camera)
    /\ UNCHANGED <<summary, home, detector, sheet, imageWidth, imageHeight, faces, result, canvas, processing, errorMessage>>

InitCamera ==
    /\ Init
    /\ imageWidth = 1000 /\ imageHeight = 1000 /\ faces = <<>>

NextCamera ==
    \/ ShowCamera \/ ToggleCamera \/ GetUserMediaResolves \/ GetUserMediaRejects
    \/ HandleCapture \/ LeaveCapture

SpecCamera == InitCamera /\ [][NextCamera]_vars

(***************************************************************************)
(* Properties                                                              *)
(***************************************************************************)
Returned == result.status = "returned"

Cropped == canvas.status = "returned"

\* C1: with zero faces or two or more, checkCompliance returns (does not
\* throw) a result with passed = false, exactly one check, that check being
\* the failed 'face-count' check, and metrics.faceCount = faces.length.
C1_FaceCountGating ==
    (result.status # "none" /\ Len(faces) # 1) =>
        /\ result.status = "returned"
        /\ result.value.passed = FALSE
        /\ Len(result.value.checks) = 1
        /\ result.value.checks[1].id = "face-count"
        /\ result.value.checks[1].passed = FALSE
        /\ result.value.metrics.faceCount = Len(faces)

C1_Witness == Returned /\ Len(faces) = 0 /\ Len(result.value.checks) = 1

\* C2: the 'eye-height' (framing margin) check passes iff
\* eyeCenterY >= 0.95 * 0.375 * csh and imageHeight - eyeCenterY >=
\* 0.95 * 0.625 * csh, where csh = (boundingBox.height * 1.25) / 0.595.
C2_MarginFromFullHead ==
    (Returned /\ Len(faces) = 1) =>
        LET f    == faces[1]
            eyeY == RDiv(RAdd(f.landmarks.leftEye.y, f.landmarks.rightEye.y), R(2))
            csh  == RDiv(RMul(f.boundingBox.height, Frac(5, 4)), Frac(119, 200))
        IN  result.value.checks[3].passed <=>
              /\ RGe(eyeY, RMul(RMul(Frac(19, 20), Frac(3, 8)), csh))
              /\ RGe(RSub(R(imageHeight), eyeY), RMul(RMul(Frac(19, 20), Frac(5, 8)), csh))

\* C3: the source rectangle cropToPassport hands to drawImage lies inside the
\* source image: 0 <= sx, 0 <= sy, sx + sw <= sourceWidth, sy + sh <= sourceHeight.
C3_ClampContainment ==
    Cropped =>
        LET d == canvas.ops[2]
        IN  /\ d.op = "drawImage"
            /\ RLe(R(0), d.sx)
            /\ RLe(R(0), d.sy)
            /\ RLe(RAdd(d.sx, d.sw), R(imageWidth))
            /\ RLe(RAdd(d.sy, d.sh), R(imageHeight))

\* a crop whose ideal window is wider than the source and starts left of it
C3_Witness ==
    /\ Cropped
    /\ RGt(RMul(canvas.faceData.boundingBox.height, Frac(250, 119)), R(imageWidth))
    /\ RLt(canvas.faceData.landmarks.leftEye.x, R(0))

\* C4: when the framing-margin check passes for a face, the ideal vertical
\* extent [eyeY - 0.375 * side, eyeY + 0.625 * side] of the crop window of the
\* same face, side = (boundingBox.height * 1.25) / 0.595, lies inside
\* [0, imageHeight] up to 5% of the needed margin, and the vertical clamp moves
\* the window by no more than that.
C4_MarginImpliesCropFits ==
    (Returned /\ Cropped /\ Len(faces) = 1 /\ result.value.checks[3].passed) =>
        LET f     == faces[1]
            eyeY  == RDiv(RAdd(f.landmarks.leftEye.y, f.landmarks.rightEye.y), R(2))
            side  == RDiv(RMul(f.boundingBox.height, Frac(5, 4)), Frac(119, 200))
            above == RMul(Frac(3, 8), side)
            below == RMul(Frac(5, 8), side)
            top   == RSub(eyeY, above)
            slack == RMul(Frac(1, 20), RMax(above, below))
        IN  /\ RGe(top, RNeg(RMul(Frac(1, 20), above)))
            /\ RLe(RAdd(eyeY, below), RAdd(R(imageHeight), RMul(Frac(1, 20), below)))
            /\ RLe(RAbs(RSub(canvas.ops[2].sy, top)), slack)

\* C5 (as claimed): the rectangle drawn is always the full square of side
\* 600 / scale, with its origin the ideal origin clamped to
\* [0, sourceDimension - side] on each axis.
C5_TranslateOnly ==
    Cropped =>
        LET f    == canvas.faceData
            d    == canvas.ops[2]
            side == RDiv(R(600), RDiv(R(357), RMul(f.boundingBox.height, Frac(5, 4))))
        IN  /\ d.sw = side
            /\ d.sh = side
            /\ RLe(R(0), d.sx) /\ RLe(d.sx, RSub(R(imageWidth), side))
            /\ RLe(R(0), d.sy) /\ RLe(d.sy, RSub(R(imageHeight), side))

\* C5 (amended): on an axis where the window side 600 / scale fits in the
\* source, the drawn extent is the full side and the origin is the ideal
\* origin clamped to [0, sourceDimension - side]; on an axis where the side
\* exceeds the source dimension, the origin is 0 and the drawn extent is
\* shrunk to the source dimension.
C5_TranslateWhenFits ==
    Cropped =>
        LET f      == canvas.faceData
            d      == canvas.ops[2]
            side   == RDiv(R(600), RDiv(R(357), RMul(f.boundingBox.height, Frac(5, 4))))
            eyeX   == RDiv(RAdd(f.landmarks.leftEye.x, f.landmarks.rightEye.x), R(2))
            eyeY   == RDiv(RAdd(f.landmarks.leftEye.y, f.landmarks.rightEye.y), R(2))
            idealX == RSub(eyeX, RDiv(side, R(2)))
            idealY == RSub(eyeY, RMul(Frac(3, 8), side))
            Axis(origin, extent, ideal, dim) ==
                IF RLe(side, dim)
                THEN /\ extent = side
                     /\ origin = (IF RLt(ideal, R(0)) THEN R(0)
                                  ELSE IF RGt(ideal, RSub(dim, side)) THEN RSub(dim, side)
                                  ELSE ideal)
                ELSE /\ origin = R(0)
                     /\ extent = dim
        IN  /\ Axis(d.sx, d.sw, idealX, R(imageWidth))
            /\ Axis(d.sy, d.sh, idealY, R(imageHeight))

\* a window that fits in the source but whose ideal position runs past the
\* right edge, so that it is translated back
C5_Witness ==
    /\ Cropped
    /\ LET f    == canvas.faceData
           side == RMul(f.boundingBox.height, Frac(250, 119))
           eyeX == RDiv(RAdd(f.landmarks.leftEye.x, f.landmarks.rightEye.x), R(2))
       IN  /\ RLe(side, R(imageWidth))
           /\ RGt(RAdd(eyeX, RDiv(side, R(2))), R(imageWidth))
           /\ canvas.ops[2].sx = RSub(R(imageWidth), side)

C7_PassedIsConjunction ==
    Returned =>
        (result.value.passed <=>
            \A i \in DOMAIN result.value.checks : result.value.checks[i].passed)

\* one face, face-count passed, a later check failed, overall not passed
C7_Witness ==
    /\ Returned /\ Len(faces) = 1
    /\ result.value.checks[1].passed
    /\ \E i \in 2..5 : ~result.value.checks[i].passed
    /\ ~result.value.passed

\* C8: with exactly one face the result lists five checks in the order
\* face-count, head-size, eye-height, head-tilt, horizontal-centering,
\* whatever each check's outcome.
C8_FiveChecksInOrder ==
    (Returned /\ Len(faces) = 1) =>
        [i \in DOMAIN result.value.checks |-> result.value.checks[i].id] =
            <<"face-count", "head-size", "eye-height", "head-tilt", "horizontal-centering">>

\* the head-size check failed and the three later checks are still listed
C8_Witness ==
    /\ Returned /\ Len(faces) = 1
    /\ Len(result.value.checks) = 5
    /\ ~result.value.checks[2].passed
    /\ ~result.value.checks[3].passed

\* C9: faceData is present in the result iff faces.length = 1, and is then
\* faces[0], whether or not checks 2-5 passed.
C9_FaceDataIffOneFace ==
    Returned =>
        /\ ("faceData" \in DOMAIN result.value) <=> (Len(faces) = 1)
        /\ ("faceData" \in DOMAIN result.value) => result.value.faceData = faces[1]

\* one face, the result failed, and faceData is still handed on
C9_Witness ==
    /\ Returned /\ Len(faces) = 1
    /\ ~result.value.passed
    /\ "faceData" \in DOMAIN result.value
    /\ result.value.faceData = faces[1]

\* C10: with zero faces or two or more, every metric other than faceCount is 0.
C10_MetricsStayZero ==
    (Returned /\ Len(faces) # 1) =>
        /\ result.value.metrics.headHeightPercent = R(0)
        /\ result.value.metrics.eyeHeightPercent = R(0)
        /\ result.value.metrics.headTiltDegrees = R(0)
        /\ result.value.metrics.horizontalCenterOffset = R(0)

\* two or more faces, not all alike
C10_Witness ==
    /\ Returned /\ Len(faces) >= 2
    /\ faces[1] # faces[2]
    /\ result.value.metrics.faceCount = Len(faces)

C13_CenteringThreshold ==
    (Returned /\ Len(faces) = 1) =>
        LET bb     == faces[1].boundingBox
            cx     == RAdd(bb.originX, RDiv(bb.width, R(2)))
            half   == RDiv(R(imageWidth), R(2))
            offset == RMul(RDiv(RAbs(RSub(cx, half)), R(imageWidth)), R(100))
            c      == result.value.checks[5]
        IN  /\ c.id = "horizontal-centering"
            /\ c.passed <=> RLe(offset, R(10))
            /\ (offset = R(10)) => c.passed
            /\ (offset = R(15)) => ~c.passed
            /\ ~c.passed =>
                 /\ (c.message.text = "Face too far left. Center yourself in the frame.")
                        <=> RLt(cx, half)
                 /\ (c.message.text = "Face too far right. Center yourself in the frame.")
                        <=> ~RLt(cx, half)

\* an offset of exactly 10 percent, accepted
C13_Witness ==
    /\ Returned /\ Len(faces) = 1
    /\ result.value.metrics.horizontalCenterOffset = R(10)
    /\ result.value.checks[5].passed

\* C14: a failing framing-margin check says "Not enough space above head" iff
\* availableAboveEyes < 0.95 * neededAboveEyes (also when both sides are
\* short) and "Not enough space below chin" iff only the space below the eyes
\* is short, the needed amounts being 0.375 and 0.625 of the crop height
\* (boundingBox.height * 1.25) / 0.595; a passing check carries the success
\* message.
C14_MarginMessage ==
    (Returned /\ Len(faces) = 1) =>
        LET f          == faces[1]
            eyeY       == RDiv(RAdd(f.landmarks.leftEye.y, f.landmarks.rightEye.y), R(2))
            cropHeight == RDiv(RMul(f.boundingBox.height, Frac(125, 100)), Frac(595, 1000))
            aboveShort == RLt(eyeY, RMul(RMul(cropHeight, Frac(375, 1000)), Frac(95, 100)))
            belowShort == RLt(RSub(R(imageHeight), eyeY),
                              RMul(RMul(cropHeight, Frac(625, 1000)), Frac(95, 100)))
            c          == result.value.checks[3]
            above      == "Not enough space above head. Move down or step back from the camera."
            below      == "Not enough space below chin. Move up or step back from the camera."
        IN  /\ c.id = "eye-height"
            /\ ~c.passed => /\ (c.message.text = above) <=> aboveShort
                            /\ (c.message.text = below) <=> (belowShort /\ ~aboveShort)
            /\ c.passed => c.message.text = "Sufficient framing margin for crop (ok)"

\* C15: when the ideal window lies inside the source image, the drawImage of
\* cropToPassport takes a square source window of side 600 / scale, maps the
\* eye midpoint to output (300, 225) and maps a source length of
\* boundingBox.height * 1.25 to 357 output pixels.
C15_UnclampedTransform ==
    Cropped =>
        LET f      == canvas.faceData
            d      == canvas.ops[2]
            head   == RMul(f.boundingBox.height, Frac(5, 4))
            side   == RDiv(R(600), RDiv(R(357), head))
            eyeX   == RDiv(RAdd(f.landmarks.leftEye.x, f.landmarks.rightEye.x), R(2))
            eyeY   == RDiv(RAdd(f.landmarks.leftEye.y, f.landmarks.rightEye.y), R(2))
            idealX == RSub(eyeX, RDiv(side, R(2)))
            idealY == RSub(eyeY, RMul(Frac(3, 8), side))
            inside == /\ RLe(R(0), idealX) /\ RLe(RAdd(idealX, side), R(imageWidth))
                      /\ RLe(R(0), idealY) /\ RLe(RAdd(idealY, side), R(imageHeight))
            OutX(x) == RAdd(R(d.dx), RMul(RSub(x, d.sx), RDiv(R(d.dw), d.sw)))
            OutY(y) == RAdd(R(d.dy), RMul(RSub(y, d.sy), RDiv(R(d.dh), d.sh)))
        IN  inside =>
              /\ d.op = "drawImage"
              /\ d.sw = side /\ d.sh = side
              /\ OutX(eyeX) = R(300)
              /\ OutY(eyeY) = R(225)
              /\ RMul(head, RDiv(R(d.dh), d.sh)) = R(357)

\* a crop whose ideal window lies strictly inside the source on every side
C15_Witness ==
    /\ Cropped
    /\ LET f    == canvas.faceData
           side == RMul(f.boundingBox.height, Frac(250, 119))
           eyeX == RDiv(RAdd(f.landmarks.leftEye.x, f.landmarks.rightEye.x), R(2))
           eyeY == RDiv(RAdd(f.landmarks.leftEye.y, f.landmarks.rightEye.y), R(2))
       IN  /\ RLt(R(0), RSub(eyeX, RDiv(side, R(2))))
           /\ RLt(RAdd(eyeX, RDiv(side, R(2))), R(imageWidth))
           /\ RLt(R(0), RSub(eyeY, RMul(Frac(3, 8), side)))
           /\ RLt(RAdd(eyeY, RMul(Frac(5, 8), side)), R(imageHeight))
           /\ canvas.ops[2].sx = RSub(eyeX, RDiv(side, R(2)))

\* C16: processPassportPhoto calls detection, then checkCompliance, and
\* cropToPassport only after compliance and only when compliance.passed (with
\* faceData present); in the returned result croppedCanvas, croppedDataURL
\* and croppedBlob are all defined iff compliance.passed; a non-compliant
\* photo ends in a result with no cropped output, not in an error.
C16_CropOnlyWhenCompliant ==
    LET p        == processing
        order    == <<"initializeFaceDetector", "detectFaces", "checkCompliance",
                      "cropToPassport", "canvasToDataURL", "canvasToBlob">>
        Called(f) == \E i \in 1..Len(p.calls) : p.calls[i] = f
        Defined(x) == x.status # "undefined"
    IN  /\ Len(p.calls) <= Len(order)
        /\ \A i \in 1..Len(p.calls) : p.calls[i] = order[i]
        /\ Called("cropToPassport") =>
              LET c == checkCompliance(R(imageWidth), R(imageHeight), faces)
              IN  c.passed /\ "faceData" \in DOMAIN c
        /\ p.pc # "thrown" /\ Defined(p.compliance) /\ ~p.compliance.value.passed =>
              /\ p.pc \in {"return", "returned"}
              /\ ~Called("cropToPassport")
        /\ p.pc = "thrown" /\ Called("checkCompliance") =>
              checkCompliance(R(imageWidth), R(imageHeight), faces).passed
        /\ p.pc = "returned" =>
              /\ Defined(p.compliance)
              /\ p.compliance.value = checkCompliance(R(imageWidth), R(imageHeight), faces)
              /\ Defined(p.croppedCanvas) <=> p.compliance.value.passed
              /\ Defined(p.croppedDataURL) <=> p.compliance.value.passed
              /\ Defined(p.croppedBlob) <=> p.compliance.value.passed

\* a compliant photo returned with its three cropped outputs
C16_Witness ==
    /\ processing.pc = "returned"
    /\ processing.compliance.value.passed
    /\ processing.croppedCanvas.status = "returned"
    /\ processing.croppedDataURL.status = "defined"
    /\ processing.croppedBlob.status = "defined"

\* C17: a call of cropToPassport either throws 'Failed to get canvas context'
\* with nothing drawn, or returns a 600 x 600 canvas on which the white fill
\* of the whole canvas precedes the single drawImage of the source window;
\* there is no other outcome, whatever the face geometry and source size.
C17_TwoOutcomes ==
    canvas.status # "none" =>
        \/ /\ canvas.status = "thrown"
           /\ canvas.error = "Failed to get canvas context"
           /\ "ops" \notin DOMAIN canvas
        \/ /\ canvas.status = "returned"
           /\ canvas.width = 600 /\ canvas.height = 600
           /\ Len(canvas.ops) = 2
           /\ canvas.ops[1] = [op |-> "fillRect", fillStyle |-> "#FFFFFF",
                               x |-> 0, y |-> 0, w |-> 600, h |-> 600]
           /\ canvas.ops[2].op = "drawImage"
           /\ <<canvas.ops[2].dx, canvas.ops[2].dy, canvas.ops[2].dw, canvas.ops[2].dh>>
                 = <<0, 0, 600, 600>>

\* returned although the window is larger than the source in both directions
\* and the eyes lie left of the image
C17_Witness ==
    /\ canvas.status = "returned"
    /\ LET f    == canvas.faceData
           side == RMul(f.boundingBox.height, Frac(250, 119))
       IN  /\ RGt(side, R(imageWidth)) /\ RGt(side, R(imageHeight))
           /\ RLt(f.landmarks.leftEye.x, R(0))
    /\ canvas.ops[1].op = "fillRect"

\* C18: getComplianceErrorMessage returns null when the result passed;
\* otherwise the message of the failed 'face-count' check if that check
\* failed, else the message of the first failing check in list order.
C18_MostCriticalMessage ==
    errorMessage.status # "none" =>
        LET r      == result.value
            Failed == {i \in 1..Len(r.checks) : ~r.checks[i].passed}
            FailedFaceCount == {i \in Failed : r.checks[i].id = "face-count"}
            first  == CHOOSE i \in Failed : \A j \in Failed : i <= j
        IN  /\ r.passed => errorMessage = [status |-> "null"]
            /\ (~r.passed /\ FailedFaceCount # {}) =>
                  \E i \in FailedFaceCount :
                     errorMessage = [status |-> "message", value |-> r.checks[i].message]
            /\ (~r.passed /\ FailedFaceCount = {} /\ Failed # {}) =>
                  errorMessage = [status |-> "message", value |-> r.checks[first].message]

\* one face failing head-size and head-tilt: the head-size message is reported
C18_Witness ==
    /\ errorMessage.status = "message"
    /\ Len(faces) = 1
    /\ ~result.value.checks[2].passed /\ ~result.value.checks[4].passed
    /\ errorMessage.value = result.value.checks[2].message
    /\ errorMessage.value # result.value.checks[4].message

\* C19: whenever the head-size check passes (boundingBox.height * 1.25 >=
\* 150), the scale of cropToPassport for the same face equals
\* 357 / (boundingBox.height * 1.25) and is at most 357/150, hence at most 4.
C19_ScaleBounded ==
    (Returned /\ Len(faces) = 1 /\ Cropped /\ canvas.faceData = faces[1]) =>
        LET h     == faces[1].boundingBox.height
            drawn == scale(canvas.faceData.boundingBox)
        IN  result.value.checks[2].passed =>
              /\ result.value.checks[2].id = "head-size"
              /\ RGe(RMul(h, Frac(5, 4)), R(150))
              /\ drawn = RDiv(R(357), RMul(h, Frac(5, 4)))
              /\ RLe(drawn, Frac(357, 150))
              /\ RLe(drawn, R(4))

\* the smallest accepted head (120 * 1.25 = 150) cropped at scale 357/150
C19_Witness ==
    /\ Returned /\ Len(faces) = 1 /\ Cropped /\ canvas.faceData = faces[1]
    /\ result.value.checks[2].passed
    /\ faces[1].boundingBox.height = R(120)
    /\ scale(faces[1].boundingBox) = Frac(357, 150)

C21_TiltedScenario ==
    (/\ Returned /\ Len(faces) = 1
     /\ imageWidth = 1000 /\ imageHeight = 1000
     /\ faces[1].boundingBox.height = R(300)
     /\ RAdd(faces[1].boundingBox.originX, RDiv(faces[1].boundingBox.width, R(2))) = R(500)
     /\ faces[1].landmarks.leftEye = Pt(R(440), R(450))
     /\ faces[1].landmarks.rightEye = Pt(R(560), Frac(4669, 10)))
    => LET r == result.value
       IN  /\ ~r.passed
           /\ Len(r.checks) = 5
           /\ r.checks[4].id = "head-tilt" /\ ~r.checks[4].passed
           /\ r.checks[4].message = Msg("Head is tilted % deg. Keep your head level.", 80)
           /\ \A i \in {1, 2, 3, 5} : r.checks[i].passed
           /\ <<r.checks[1].id, r.checks[2].id, r.checks[3].id, r.checks[5].id>>
                 = <<"face-count", "head-size", "eye-height", "horizontal-centering">>

\* the tilted scenario, evaluated, with a tilt between 7.95 and 8.05 degrees
C21_Witness ==
    /\ Returned /\ Len(faces) = 1
    /\ imageWidth = 1000 /\ imageHeight = 1000
    /\ faces[1].boundingBox.height = R(300)
    /\ faces[1].boundingBox.originX = R(380)
    /\ faces[1].landmarks.leftEye = Pt(R(440), R(450))
    /\ faces[1].landmarks.rightEye = Pt(R(560), Frac(4669, 10))
    /\ RLe(Frac(795, 100), result.value.metrics.headTiltDegrees)
    /\ RLt(result.value.metrics.headTiltDegrees, Frac(805, 100))

C23_StreamsStoppedAfterUnmount ==
    ~camera.mounted => camera.live = {}

\* C24: on the print sheet every photo rectangle and every cut-line rectangle
\* lies within the page [0, 4] x [0, 6] inches, there are four photos of
\* 2 x 2 inches, and no two photo rectangles overlap.
C24_PhotosWithinPage ==
    sheet.status = "saved" =>
        LET Inside(r) == /\ RLe(R(0), r.x) /\ RLe(RAdd(r.x, r.w), R(4))
                         /\ RLe(R(0), r.y) /\ RLe(RAdd(r.y, r.h), R(6))
            Disjoint(a, b) == \/ RLe(RAdd(a.x, a.w), b.x) \/ RLe(RAdd(b.x, b.w), a.x)
                              \/ RLe(RAdd(a.y, a.h), b.y) \/ RLe(RAdd(b.y, b.h), a.y)
        IN  /\ Len(sheet.images) = 4
            /\ \A i \in 1..4 : sheet.images[i].w = R(2) /\ sheet.images[i].h = R(2)
            /\ \A i \in 1..4 : Inside(sheet.images[i])
            /\ \A i \in 1..Len(sheet.rects) : Inside(sheet.rects[i])
            /\ \A i, j \in 1..4 : i # j => Disjoint(sheet.images[i], sheet.images[j])

\* C25: with concurrent initializeFaceDetector and detectFaces calls at most
\* one detector load is in flight at any time, no load is in flight while a
\* detector exists, and at most one detector is ever created.
C25_SingleLoad ==
    /\ LoadsInFlight(detector) <= 1
    /\ LoadsInFlight(detector) = 1 <=> detector.isLoading
    /\ detector.faceDetector => LoadsInFlight(detector) = 0
    /\ detector.created <= 1

\* one caller loading while the other waits for it
C25_Witness ==
    /\ \E p, q \in Callers :
          /\ detector.callers[p].pc \in {"resolver", "create"}
          /\ detector.callers[q].pc = "waiting"

\* C26: whenever a call of initializeFaceDetector resolves without throwing,
\* faceDetector is non-null at that moment, for the loading call and for a
\* call that waited on isLoading, also when the awaited load failed.
C26_ResolvedMeansDetector ==
    \A p \in Callers : detector.callers[p].init # "no detector"

\* C27: a non-null faceDetector implies that getLoadError() is null.
C27_NoStaleLoadError ==
    detector.faceDetector => ~detector.loadError

\* a detector created by a second load after a failed one and a dispose
C27_Witness ==
    /\ detector.faceDetector
    /\ detector.created = 2
    /\ \E p \in Callers : detector.callers[p].error = "Failed to initialize face detector"

\* C28: on the Home page, in step 'results' exactly one of processingResult
\* and processingError is non-null, in steps 'instructions' and 'capture'
\* both are null, and the step 'processing' is left only for 'results', at
\* the moment the run of processPassportPhoto has returned or thrown.
C28_ResultXorError ==
    /\ [](LET r == home.processingResult.status # "null"
              e == home.processingError.status # "null"
          IN  /\ home.currentStep = "results" => (r /\ ~e) \/ (e /\ ~r)
              /\ home.currentStep \in {"instructions", "capture"} => ~r /\ ~e)
    /\ [][home.currentStep = "processing" =>
             \/ home'.currentStep = "processing" /\ processing.pc \notin {"returned", "thrown"}
             \/ home'.currentStep = "results" /\ processing.pc \in {"returned", "thrown"}]_vars

\* the results step showing an error that was thrown after the compliance check
C28_Witness ==
    /\ home.currentStep = "results"
    /\ home.processingError.status = "message"
    /\ home.processingResult.status = "null"
    /\ processing.pc = "thrown"
    /\ "checkCompliance" \in {processing.calls[i] : i \in 1..Len(processing.calls)}

\* C29: a single face whose landmarks are all (0, 0), as extractLandmarks
\* yields for fewer than four keypoints, never gets passed = true: the
\* head-size check and the framing-margin check do not both pass.
C29_NoLandmarksNeverPasses ==
    (/\ Returned /\ Len(faces) = 1
     /\ faces[1].landmarks \in {extractLandmarks(kp, R(imageWidth), R(imageHeight)) :
                                   kp \in {k \in Keypoints : Len(k) < 4}}
     /\ \A l \in {"leftEye", "rightEye", "nose", "mouth"} :
           faces[1].landmarks[l] = Pt(R(0), R(0)))
    => /\ ~result.value.passed
       /\ result.value.checks[2].id = "head-size"
       /\ result.value.checks[3].id = "eye-height"
       /\ ~(result.value.checks[2].passed /\ result.value.checks[3].passed)

\* a centred face without landmarks that fails on the framing margin alone
C29_Witness ==
    /\ Returned /\ Len(faces) = 1
    /\ faces[1].landmarks.leftEye = Pt(R(0), R(0))
    /\ faces[1].landmarks.rightEye = Pt(R(0), R(0))
    /\ faces[1].landmarks.nose = Pt(R(0), R(0))
    /\ \A i \in {1, 2, 4, 5} : result.value.checks[i].passed
    /\ ~result.value.checks[3].passed
    /\ ~result.value.passed

\* C30: a result with passed = false has at least one failed check; hence
\* getComplianceErrorMessage returns null iff the result passed, and
\* getComplianceSummary reports a failed count of at least 1, in the plural
\* iff the count exceeds 1, exactly when the result did not pass.
C30_FailureIsReported ==
    LET r == result.value
        n == Cardinality({i \in 1..Len(r.checks) : ~r.checks[i].passed})
    IN  /\ Returned => (~r.passed => n >= 1)
        /\ errorMessage.status # "none" => (errorMessage.status = "null" <=> r.passed)
        /\ summary.status # "none" =>
              /\ r.passed <=> summary.value.text = "Photo meets all US passport requirements (ok)"
              /\ ~r.passed <=>
                    /\ summary.value.arg = n /\ n >= 1
                    /\ summary.value.text \in {"% requirement not met", "% requirements not met"}
              /\ ~r.passed =>
                    (summary.value.text = "% requirements not met" <=> n > 1)

\* a one-face result with exactly one failed check, reported in the singular
\* and with a message
C30_Witness ==
    /\ Returned /\ Len(faces) = 1
    /\ summary.status = "returned"
    /\ summary.value = Msg("% requirement not met", 1)
    /\ errorMessage.status = "message"

=============================================================================
